---- MODULE Spec2Model ----
(***************************************************************************)
(* Model of the HTTP/3 DATA-frame stream wrapper RWStreamImp of            *)
(* src/HTTP3-client/client.go (lines 87-178) and of the keep-alive         *)
(* exchange built on it (client loop, lines 46-62; Server.ServeHTTP,       *)
(* lines 207-238).                                                         *)
(*                                                                         *)
(* Specifications:                                                         *)
(*   Spec         one RWStreamImp, its peer, Read, Write and Close calls   *)
(*   SpecRead     the receive direction of Spec alone                      *)
(*   SpecWrite    the send direction of Spec alone                         *)
(*   SpecCodec    the varint codec of the frame header on its own          *)
(*   SpecConc     one goroutine in Write and one in Read, step by step     *)
(*   SpecReadByte byteReaderImpl.ReadByte over any io.Reader               *)
(*   SpecPing     the handler and the client exchanging PING and PONG      *)
(*                                                                         *)
(* One RWStreamImp `w` owns one conduit `w.str` (a quic.Stream).  The      *)
(* conduit has two independent directions:                                 *)
(*   - the receive direction, fed by the peer and consumed by w.Read;      *)
(*   - the send direction, fed by w.Write and closed by w.Close.           *)
(*                                                                         *)
(* The conduit follows the io.Reader / io.Writer contracts that quic.Stream*)
(* implements: a Read blocks until data, end-of-data or an error is there; *)
(* it may return fewer bytes than asked (only part of the data arrived);   *)
(* it may report io.EOF together with the last bytes (n > 0, io.EOF) or on *)
(* the following call (0, io.EOF); a Read into an empty buffer returns     *)
(* (0, nil); Close closes the send direction only.                         *)
(*                                                                         *)
(* w.str is not an io.ByteReader, so Read wraps it in byteReaderImpl       *)
(* (line 143) and quicvarint.Read pulls the header one byte at a time      *)
(* through byteReaderImpl.ReadByte.                                        *)
(***************************************************************************)
EXTENDS Integers, Sequences, FiniteSets, TLC

(* ------------------------------ bounds -------------------------------- *)
\* payloads have at most MaxPayload bytes
MaxPayload == 3
\* frames put on the conduit, both directions together
MaxFrames == 2
\* len(p) of the caller's buffer in a Read is 1..MaxBuf
MaxBuf == 3
\* calls of Close
MaxCloses == 2
\* payloads of the frames in the two-thread runs have at most MaxConcPayload bytes
MaxConcPayload == 1
\* the io.Reader under a byteReaderImpl holds at most MaxSrc bytes
MaxSrc == 3
\* the varint codec is tried on the values within CodecSpread of a width boundary
CodecSpread == 6

(* ------------------------------ helpers ------------------------------- *)
Min(a, b) == IF a < b THEN a ELSE b

\* the byte values payloads are made of: both are also the bytes of a
\* one-byte varint, so a payload can look like a frame header
PayloadBytes == {0, 1}

Payloads == UNION { [1..n -> PayloadBytes] : n \in 0..MaxPayload }

\* the frame types the peer sends: DATA (0x0) and HEADERS (0x1)
FrameTypes == {0, 1}

RECURSIVE BEBytes(_, _)
\* the n low-order bytes of v, most significant first
BEBytes(v, n) == IF n = 0 THEN << >> ELSE Append(BEBytes(v \div 256, n - 1), v % 256)

(* A faulty width choice that moves every boundary down by one (63 takes   *)
(* two bytes): C12 must tell it from the real one.                         *)
VarintLen_Strict(i) ==
  IF i < 63 THEN 1
  ELSE IF i < 16383 THEN 2
  ELSE IF i < 1073741823 THEN 4
  ELSE 8

(* quicvarint.Write(b, i): the shortest of the 1/2/4/8-byte encodings, the  *)
(* width tag in the top two bits of the first byte.                         *)
VarintLen(i) ==
  IF i <= 63 THEN 1
  ELSE IF i <= 16383 THEN 2
  ELSE IF i <= 1073741823 THEN 4
  ELSE 8

VarintTag(n) == CASE n = 1 -> 0 [] n = 2 -> 64 [] n = 4 -> 128 [] n = 8 -> 192

VarintWrite(i) ==
  LET n == VarintLen(i)
      b == BEBytes(i, n)
  IN  [b EXCEPT ![1] = @ + VarintTag(n)]

(* A faulty dataFrame.Write that emits the length before the type: C3     *)
(* must tell it from the real one.                                        *)
dataFrame_Write_LengthFirst(Length) == VarintWrite(Length) \o VarintWrite(0)

(* dataFrame.Write: the type varint 0x0, then the length varint. *)
dataFrame_Write(Length) == VarintWrite(0) \o VarintWrite(Length)

(* The bytes a frame of type t occupies on the wire.  For t = 0 this is     *)
(* what one complete RWStreamImp.Write(p) hands to the conduit.             *)
FrameBytes(t, p) ==
  IF t = 0 THEN dataFrame_Write(Len(p)) \o p
  ELSE VarintWrite(t) \o VarintWrite(Len(p)) \o p

HeaderLen(t, p) == VarintLen(t) + VarintLen(Len(p))

(* ----------------------------- the state ------------------------------ *)
VARIABLES
  rcv,        \* receive direction of w.str: bytes arrived and not yet read
  rcvTag,     \* what the peer meant each byte of rcv to be:
              \*   "H0" first header byte, "H" later header byte,
              \*   "P" payload of a DATA frame, "X" payload of another frame
  rcvFrames,  \* the frames whose first header byte is still in rcv
  fin,        \* the peer ended the receive direction (clean end-of-data)
  rst,        \* the peer reset the receive direction (reads fail)
  trunc,      \* where the peer cut the last frame: "none", "header", "payload"
  peerOK,     \* the peer has sent nothing but whole DATA frames so far
  sent,       \* send direction of w.str: every byte the conduit accepted
  okWrites,   \* payloads of the Write calls that returned without error
  wrFailed,   \* some Write call returned an error
  nframes,    \* frames put on the conduit so far, both directions
  strCloses,  \* how many times w.str.Close() was invoked
  lastRead,   \* what the last w.Read call did
  lastWrite   \* what the last w.Write call did

(* The varint codec on its own (quicvarint.Write / quicvarint.Read as the  *)
(* frame header uses them): a value, its encoding, what decoding gives.    *)
VARIABLES
  cv,         \* the value handed to quicvarint.Write
  cenc,       \* the bytes quicvarint.Write appended (<< >>: not encoded yet)
  cdec        \* what quicvarint.Read made of cenc followed by other bytes

codecVars == << cv, cenc, cdec >>

(* A byteReaderImpl on its own, around any io.Reader (the struct embeds    *)
(* the interface, line 105).                                               *)
VARIABLES
  rbSrc,      \* the bytes the embedded io.Reader has still to deliver
  rbLast      \* what the last ReadByte call got from it and returned

rbVars == << rbSrc, rbLast >>

(* One goroutine in w.Write and one in w.Read on the same RWStreamImp,     *)
(* each advancing one conduit call or one buffer access at a time.         *)
VARIABLES
  scratch,    \* the buffers the two paths allocate: Write's bytes.Buffer
              \* (line 128) and ReadByte's 1-byte slice (line 107)
  wr,         \* the writer goroutine: where it is in Write and its locals
  wres,       \* what its last Write call did and returned
  rd,         \* the reader goroutine: where it is in Read and its locals
  rres        \* what its last Read call consumed and returned

concVars == << scratch, wr, wres, rd, rres >>

(* The keep-alive exchange: Server.ServeHTTP (lines 207-238) on one end of *)
(* the request stream, the client's main loop (lines 46-62) on the other.  *)
VARIABLES
  srv,        \* the handler: where it is, its loop counter i, Close calls made
  cli,        \* the client: where it is in its loop
  up,         \* client to server: the bytes of the request body, framed by the
              \* HTTP/3 client, that RWStr.Read has not consumed yet
  down,       \* server to client: the payload bytes of each PING frame that the
              \* response body has still to deliver; whether the server ended
              \* the stream (fin) or a write on it failed (err)
  tally       \* what happened so far: calls, PINGs, PONGs, rounds, the
              \* handler's operations in order

pingVars == << srv, cli, up, down, tally >>

auxVars == << codecVars, rbVars, concVars, pingVars >>

streamVars == << rcv, rcvTag, rcvFrames, fin, rst, trunc, peerOK, sent, okWrites,
                 wrFailed, nframes, strCloses, lastRead, lastWrite >>

vars == << rcv, rcvTag, rcvFrames, fin, rst, trunc, peerOK, sent, okWrites, wrFailed,
           nframes, strCloses, lastRead, lastWrite, auxVars >>

rcvVars == << rcv, rcvTag, rcvFrames, fin, rst, trunc, peerOK >>
sndVars == << sent, okWrites, wrFailed >>

NoFrame == [t |-> 0, l |-> 0, p |-> << >>, whole |-> FALSE]

NoRead ==
  [valid |-> FALSE, lenp |-> 0, n |-> 0, err |-> "nil", chunk |-> << >>,
   chunkTags |-> << >>, used |-> 0, hdr |-> 0, hdrTags |-> << >>,
   parsed |-> FALSE, t |-> 0, l |-> 0, startTag |-> "END",
   startFrame |-> NoFrame, startRem |-> 0, endRem |-> 0, short |-> FALSE,
   sawEOF |-> FALSE, closed |-> FALSE]

NoWrite ==
  [valid |-> FALSE, p |-> << >>, n |-> 0, err |-> "nil", acc |-> << >>,
   calls |-> 0, closed |-> FALSE, fail |-> "none"]

NoDecode == [valid |-> FALSE, v |-> 0, err |-> "nil", pos |-> 0, tail |-> << >>]

CodecIdle == cv = 0 /\ cenc = << >> /\ cdec = NoDecode

NoReadByte == [valid |-> FALSE, un |-> 0, uerr |-> "nil", ub |-> 0, b |-> 0, err |-> "nil"]

ReadByteIdle == rbSrc = << >> /\ rbLast = NoReadByte

\* mixed: the other goroutine was inside its call at some step of this call
WrIdle == [pc |-> "idle", p |-> << >>, fail |-> "none", kacc |-> 0, start |-> 0,
           dead |-> FALSE, mixed |-> FALSE]

NoWres == [valid |-> FALSE, p |-> << >>, fail |-> "none", kacc |-> 0, dead |-> FALSE,
           acc |-> << >>, n |-> 0, err |-> "nil", calls |-> 0, mixed |-> FALSE]

RdIdle == [pc |-> "idle", lenp |-> 0, bundle |-> FALSE, k |-> 0, in |-> << >>,
           which |-> "t", first |-> TRUE, left |-> 0, acc |-> 0, t |-> 0, l |-> 0,
           gotn |-> 0, goterr |-> "nil", mixed |-> FALSE]

NoRres == [valid |-> FALSE, lenp |-> 0, bundle |-> FALSE, k |-> 0, in |-> << >>,
           rest |-> << >>, fin |-> FALSE, n |-> 0, err |-> "nil", hdr |-> 0,
           mixed |-> FALSE]

ConcIdle ==
  /\ scratch = [x \in {"w", "r"} |-> << >>]
  /\ wr = WrIdle /\ wres = NoWres /\ rd = RdIdle /\ rres = NoRres

StreamInit ==
  /\ rcv = << >> /\ rcvTag = << >> /\ rcvFrames = << >>
  /\ fin = FALSE /\ rst = FALSE /\ trunc = "none" /\ peerOK = TRUE
  /\ sent = << >> /\ okWrites = << >> /\ wrFailed = FALSE
  /\ nframes = 0 /\ strCloses = 0
  /\ lastRead = NoRead /\ lastWrite = NoWrite

(* NewRWStream(str): a fresh wrapper around a fresh conduit. *)
(* The handler after line 219, about to test i < 10 for the first time;   *)
(* the client after line 46, about to call str.Read for the first time.    *)
PingIdle ==
  /\ srv = [pc |-> "write", i |-> 0, closes |-> 0]
  /\ cli = "read"
  /\ up = << >>
  /\ down = [frames |-> << >>, fin |-> FALSE, err |-> FALSE]
  /\ tally = [writes |-> 0, pings |-> 0, reads |-> 0, rounds |-> 0, pongs |-> 0,
              faulty |-> FALSE, short |-> FALSE, split |-> FALSE, ops |-> << >>]

Init == StreamInit /\ CodecIdle /\ ReadByteIdle /\ ConcIdle /\ PingIdle

(* ------------------------ the conduit, reading ------------------------ *)
(* w.str.Read(b) with len(b) = want, the read position being pos.  k is    *)
(* how many of the bytes of buf have arrived when the call returns; bundle *)
(* says whether the conduit reports end-of-data together with the last     *)
(* bytes or on the call after.  "BLOCK": the call does not return yet.     *)
StrRead(buf, pos, want, fin_, rst_, bundle, k) ==
  LET avail == Len(buf) - pos
      n     == Min(want, Min(avail, k))
  IN  IF rst_ THEN [n |-> 0, err |-> "ERR"]
      ELSE IF want = 0 THEN [n |-> 0, err |-> "nil"]
      ELSE IF avail > 0
        THEN [n |-> n,
              err |-> IF fin_ /\ bundle /\ pos + n = Len(buf) THEN "EOF" ELSE "nil"]
      ELSE IF fin_ THEN [n |-> 0, err |-> "EOF"]
      ELSE [n |-> 0, err |-> "BLOCK"]

(* byteReaderImpl.ReadByte, given what br.Reader.Read(b) did with the      *)
(* fresh 1-byte buffer b: it returned (n, err) and, when n = 1, stored     *)
(* the byte d in b[0] (b[0] is 0 otherwise).  The count is not looked at.  *)
byteReaderImpl_ReadByte(n, err, d) ==
  IF err # "nil" THEN [b |-> 0, err |-> err]
  ELSE [b |-> IF n = 1 THEN d ELSE 0, err |-> "nil"]

(* byteReaderImpl.ReadByte: one conduit Read into a fresh 1-byte buffer;   *)
(* on any error the byte is discarded and (0, err) returned, otherwise     *)
(* b[0] is returned whatever the count was.                                *)
ReadByte(buf, pos, fin_, rst_, bundle) ==
  LET r == StrRead(buf, pos, 1, fin_, rst_, bundle, 1)
      x == byteReaderImpl_ReadByte(r.n, r.err, IF r.n = 1 THEN buf[pos + 1] ELSE 0)
  IN  [b |-> x.b, err |-> x.err, pos |-> pos + r.n]

RECURSIVE VarintRest(_, _, _, _, _, _, _)
\* the bytes of a varint after the first: left more bytes, acc the value so far
VarintRest(buf, pos, left, acc, fin_, rst_, bundle) ==
  IF left = 0 THEN [v |-> acc, err |-> "nil", pos |-> pos]
  ELSE LET r == ReadByte(buf, pos, fin_, rst_, bundle)
       IN  IF r.err # "nil" THEN [v |-> 0, err |-> r.err, pos |-> r.pos]
           ELSE VarintRest(buf, r.pos, left - 1, acc * 256 + r.b, fin_, rst_, bundle)

(* A faulty decoder that strips one tag bit only: C11 must tell it from    *)
(* the real one.                                                           *)
VarintRead_OneTagBit(buf, pos, fin_, rst_, bundle) ==
  LET r == ReadByte(buf, pos, fin_, rst_, bundle)
  IN  IF r.err # "nil" THEN [v |-> 0, err |-> r.err, pos |-> r.pos]
      ELSE LET w  == 2 ^ (r.b \div 64)
               b1 == r.b % 128
           IN  VarintRest(buf, r.pos, w - 1, b1, fin_, rst_, bundle)

(* quicvarint.Read(br): the first byte gives the width in its top two bits *)
(* and the six high-order value bits; any ReadByte error is returned as is.*)
VarintRead(buf, pos, fin_, rst_, bundle) ==
  LET r == ReadByte(buf, pos, fin_, rst_, bundle)
  IN  IF r.err # "nil" THEN [v |-> 0, err |-> r.err, pos |-> r.pos]
      ELSE LET w  == 2 ^ (r.b \div 64)
               b1 == r.b % 64
           IN  VarintRest(buf, r.pos, w - 1, b1, fin_, rst_, bundle)

(* The frame type RWStreamImp.Read accepts (line 155). *)
DataFrameType == 0

(* A faulty Read that always hands the whole of p to the conduit: C2 must  *)
(* tell it from the real one.                                              *)
ReadLen_NoClamp(bytesRemainingInFrame, lenp) == lenp

(* Lines 162-166: the slice handed to the conduit is p[:bytesRemainingInFrame] *)
(* when the frame is shorter than p, and p otherwise.                          *)
ReadLen(bytesRemainingInFrame, lenp) ==
  IF bytesRemainingInFrame < lenp THEN bytesRemainingInFrame ELSE lenp

(* RWStreamImp.Read(p) with len(p) = lenp: the type varint, the length     *)
(* varint, the type test, then ONE conduit Read of min(l, len(p)) bytes.   *)
(* bytesRemainingInFrame is a local of the call: nothing is kept for the   *)
(* next call.                                                              *)
RWStreamImp_Read(buf, fin_, rst_, lenp, bundle, k) ==
  LET t == VarintRead(buf, 0, fin_, rst_, bundle)
  IN  IF t.err # "nil"
        THEN [n |-> 0, err |-> t.err, used |-> t.pos, hdr |-> t.pos,
              parsed |-> FALSE, t |-> 0, l |-> 0, want |-> 0]
      ELSE
      LET l == VarintRead(buf, t.pos, fin_, rst_, bundle)
      IN  IF l.err # "nil"
            THEN [n |-> 0, err |-> l.err, used |-> l.pos, hdr |-> l.pos,
                  parsed |-> FALSE, t |-> t.v, l |-> 0, want |-> 0]
          ELSE IF t.v # DataFrameType
            THEN [n |-> 0, err |-> "FRAMETYPE", used |-> l.pos, hdr |-> l.pos,
                  parsed |-> TRUE, t |-> t.v, l |-> l.v, want |-> 0]
          ELSE
          LET bytesRemainingInFrame == l.v
              want == ReadLen(bytesRemainingInFrame, lenp)
              r == StrRead(buf, l.pos, want, fin_, rst_, bundle, k)
          IN  [n |-> r.n, err |-> r.err, used |-> l.pos + r.n, hdr |-> l.pos,
               parsed |-> TRUE, t |-> t.v, l |-> l.v, want |-> want]

(* ------------------------ the conduit, writing ------------------------ *)
(* A faulty Write that does not test the error of the header write and     *)
(* goes on to write the payload: C14 must tell it from the real one.       *)
RWStreamImp_Write_HeaderErrorIgnored(p, dead, fail, kacc) ==
  LET buf == dataFrame_Write(Len(p))
  IN  IF dead
        THEN [acc |-> << >>, n |-> 0, err |-> "ERR", calls |-> 2]
      ELSE IF fail = "hdr"
        THEN [acc |-> SubSeq(buf, 1, kacc) \o p, n |-> Len(p), err |-> "nil",
              calls |-> 2]
      ELSE IF fail = "pay"
        THEN [acc |-> buf \o SubSeq(p, 1, kacc), n |-> kacc, err |-> "ERR",
              calls |-> 2]
      ELSE [acc |-> buf \o p, n |-> Len(p), err |-> "nil", calls |-> 2]

(* RWStreamImp.Write(p): the header goes to the conduit in one Write, the  *)
(* payload in a second one.  dead: w.str.Close() was called before, or an  *)
(* earlier conduit Write failed (the code sets no deadline, so a failure   *)
(* is a cancelled or closed stream); the conduit then refuses every Write  *)
(* and accepts nothing.  fail names the conduit Write of this call         *)
(* that fails ("none", "hdr", "pay") and kacc how many bytes it accepted    *)
(* before failing.  The result: acc the bytes the conduit accepted, n and   *)
(* err what Write returns, calls the conduit Writes issued.                 *)
RWStreamImp_Write(p, dead, fail, kacc) ==
  LET buf == dataFrame_Write(Len(p))
  IN  IF dead
        THEN [acc |-> << >>, n |-> 0, err |-> "ERR", calls |-> 1]
      ELSE IF fail = "hdr"
        THEN [acc |-> SubSeq(buf, 1, kacc), n |-> 0, err |-> "ERR", calls |-> 1]
      ELSE IF fail = "pay"
        THEN [acc |-> buf \o SubSeq(p, 1, kacc), n |-> kacc, err |-> "ERR",
              calls |-> 2]
      ELSE [acc |-> buf \o p, n |-> Len(p), err |-> "nil", calls |-> 2]

(* --------------------------- ghost helpers ---------------------------- *)
Rep(x, n) == [i \in 1..n |-> x]

TagsOf(t, p) ==
  << "H0" >> \o Rep("H", HeaderLen(t, p) - 1)
             \o Rep(IF t = DataFrameType THEN "P" ELSE "X", Len(p))

RECURSIVE LeadingP(_)
LeadingP(tags) ==
  IF tags = << >> \/ Head(tags) # "P" THEN 0 ELSE 1 + LeadingP(Tail(tags))

CountH0(tags) == Cardinality({i \in 1..Len(tags) : tags[i] = "H0"})

Drop(s, n) == SubSeq(s, n + 1, Len(s))

(* ------------------------------ actions ------------------------------- *)
(* The peer sends one whole frame; all its bytes reach the receive side.   *)
PeerWrite(t, p) ==
  /\ ~fin /\ ~rst /\ nframes < MaxFrames
  /\ rcv' = rcv \o FrameBytes(t, p)
  /\ rcvTag' = rcvTag \o TagsOf(t, p)
  /\ rcvFrames' = Append(rcvFrames, [t |-> t, l |-> Len(p), p |-> p, whole |-> TRUE])
  /\ peerOK' = (peerOK /\ t = DataFrameType)
  /\ nframes' = nframes + 1
  /\ UNCHANGED << fin, rst, trunc, sndVars, strCloses, lastRead, lastWrite, auxVars >>

(* The peer starts a frame of type t declaring l payload bytes and the     *)
(* stream ends inside it: either after the first j bytes of the header, or *)
(* after the header and the payload bytes q, fewer than l.                 *)
PeerTruncate(t, l, q, j) ==
  LET hdr == VarintWrite(t) \o VarintWrite(l)
  IN  /\ ~fin /\ ~rst /\ nframes < MaxFrames
      /\ \/ j >= 1 /\ j < Len(hdr) /\ q = << >>
         \/ j = Len(hdr) /\ Len(q) < l
      /\ rcv' = rcv \o SubSeq(hdr, 1, j) \o q
      /\ rcvTag' = rcvTag \o << "H0" >> \o Rep("H", j - 1)
                          \o Rep(IF t = DataFrameType THEN "P" ELSE "X", Len(q))
      /\ rcvFrames' = Append(rcvFrames, [t |-> t, l |-> l, p |-> q, whole |-> FALSE])
      /\ fin' = TRUE
      /\ trunc' = IF j < Len(hdr) THEN "header" ELSE "payload"
      /\ peerOK' = FALSE
      /\ nframes' = nframes + 1
      /\ UNCHANGED << rst, sndVars, strCloses, lastRead, lastWrite, auxVars >>

(* The peer ends the stream at a frame boundary.                           *)
PeerClose ==
  /\ ~fin /\ ~rst
  /\ fin' = TRUE
  /\ UNCHANGED << rcv, rcvTag, rcvFrames, rst, trunc, peerOK, sndVars, nframes,
                  strCloses, lastRead, lastWrite, auxVars >>

(* The peer resets the stream: what was not read is discarded and every    *)
(* later conduit Read fails.                                               *)
PeerReset ==
  /\ ~rst
  /\ rst' = TRUE
  /\ rcv' = << >> /\ rcvTag' = << >> /\ rcvFrames' = << >>
  /\ peerOK' = FALSE
  /\ UNCHANGED << fin, trunc, sndVars, nframes, strCloses, lastRead, lastWrite, auxVars >>

(* w.Read(p) with len(p) = lenp returns.  k <= lenp bytes had arrived;     *)
(* end-of-data can only come with the last bytes once the peer ended.      *)
Read(lenp, bundle, k) ==
  /\ k <= lenp
  /\ bundle => fin
  /\ \E r \in {RWStreamImp_Read(rcv, fin, rst, lenp, bundle, k)} :
      /\ r.err # "BLOCK"
      /\ rcv' = Drop(rcv, r.used)
      /\ rcvTag' = Drop(rcvTag, r.used)
      /\ rcvFrames' = Drop(rcvFrames, CountH0(SubSeq(rcvTag, 1, r.used)))
      /\ lastRead' =
           [valid |-> TRUE, lenp |-> lenp, n |-> r.n, err |-> r.err,
            chunk |-> SubSeq(rcv, r.hdr + 1, r.used),
            chunkTags |-> SubSeq(rcvTag, r.hdr + 1, r.used),
            used |-> r.used, hdr |-> r.hdr,
            hdrTags |-> SubSeq(rcvTag, 1, r.hdr),
            parsed |-> r.parsed, t |-> r.t, l |-> r.l,
            startTag |-> IF rcvTag = << >> THEN "END" ELSE Head(rcvTag),
            startFrame |-> IF rcvTag # << >> /\ Head(rcvTag) = "H0"
                             THEN Head(rcvFrames) ELSE NoFrame,
            startRem |-> LeadingP(rcvTag),
            endRem |-> LeadingP(Drop(rcvTag, r.used)),
            short |-> r.n < Min(r.want, Len(rcv) - r.hdr),
            sawEOF |-> r.err = "EOF",
            closed |-> strCloses > 0]
      /\ UNCHANGED << fin, rst, trunc, peerOK, sndVars, nframes, strCloses,
                      lastWrite, auxVars >>

(* w.Write(p) returns.                                                     *)
Write(p, fail, kacc) ==
  /\ nframes < MaxFrames
  /\ \/ fail = "none" /\ kacc = 0
     \/ fail = "hdr" /\ kacc < Len(dataFrame_Write(Len(p)))
     \/ fail = "pay" /\ (kacc < Len(p) \/ kacc = 0)
  /\ (strCloses > 0 \/ wrFailed) => (fail = "hdr" /\ kacc = 0)
  /\ \E r \in {RWStreamImp_Write(p, strCloses > 0 \/ wrFailed, fail, kacc)} :
      /\ sent' = sent \o r.acc
      /\ okWrites' = IF r.err = "nil" THEN Append(okWrites, p) ELSE okWrites
      /\ wrFailed' = (wrFailed \/ r.err # "nil")
      /\ nframes' = nframes + 1
      /\ lastWrite' = [valid |-> TRUE, p |-> p, n |-> r.n, err |-> r.err,
                       acc |-> r.acc, calls |-> r.calls, closed |-> strCloses > 0,
                       fail |-> fail]
      /\ UNCHANGED << rcvVars, strCloses, lastRead, auxVars >>

(* w.Close(): w.str.Close(), whatever was called before.                   *)
RWStreamImp_Close(closes) == closes + 1

Close ==
  /\ strCloses < MaxCloses
  /\ strCloses' = RWStreamImp_Close(strCloses)
  /\ UNCHANGED << rcvVars, sndVars, nframes, lastRead, lastWrite, auxVars >>

PeerStep ==
  \/ \E t \in FrameTypes, p \in Payloads : PeerWrite(t, p)
  \/ \E t \in FrameTypes, l \in 0..MaxPayload, q \in Payloads, j \in 1..2 :
       PeerTruncate(t, l, q, j)
  \/ PeerClose
  \/ PeerReset

ReadStep == \E lenp \in 1..MaxBuf, bundle \in BOOLEAN, k \in 1..MaxBuf :
              Read(lenp, bundle, k)

WriteStep == \E p \in Payloads, fail \in {"none", "hdr", "pay"}, kacc \in 0..MaxPayload :
               Write(p, fail, kacc)

Next == PeerStep \/ ReadStep \/ WriteStep \/ Close

Spec == Init /\ [][Next]_vars

(* The receive direction alone: the peer and the reader. *)
NextRead == PeerStep \/ ReadStep \/ Close

SpecRead == Init /\ [][NextRead]_vars

(* The send direction alone: the writer and Close. *)
NextWrite == WriteStep \/ Close

SpecWrite == Init /\ [][NextWrite]_vars

(* ======================= the framing properties ======================= *)
All(tags, k) == \A i \in 1..Len(tags) : tags[i] = k

(* The wire format, read back independently of the code: a varint at       *)
(* position pos of s (top two bits of the first byte give the width), and  *)
(* the payloads of a byte string that is a sequence of whole DATA frames.  *)
WireVarintLen(s, pos) == 2 ^ (s[pos] \div 64)

RECURSIVE WireVarintVal(_, _, _, _)
WireVarintVal(s, pos, left, acc) ==
  IF left = 0 THEN acc ELSE WireVarintVal(s, pos + 1, left - 1, acc * 256 + s[pos])

WireVarint(s, pos) ==
  IF pos > Len(s) \/ pos + WireVarintLen(s, pos) - 1 > Len(s)
    THEN [ok |-> FALSE, v |-> 0, next |-> pos]
    ELSE [ok |-> TRUE,
          v |-> WireVarintVal(s, pos + 1, WireVarintLen(s, pos) - 1, s[pos] % 64),
          next |-> pos + WireVarintLen(s, pos)]

NotFrames == << << -1 >> >>

RECURSIVE WireFrames(_, _, _)
WireFrames(s, pos, acc) ==
  IF pos > Len(s) THEN acc
  ELSE LET t == WireVarint(s, pos)
           l == WireVarint(s, t.next)
       IN  IF ~t.ok \/ t.v # 0 \/ ~l.ok \/ l.next + l.v - 1 > Len(s)
             THEN NotFrames
             ELSE WireFrames(s, l.next + l.v,
                             Append(acc, SubSeq(s, l.next, l.next + l.v - 1)))

(* C1: a Read that starts with payload of a DATA frame still undelivered   *)
(* (the call before returned less than the frame held) parses no header:   *)
(* it returns the next bytes of that payload, and the undelivered count    *)
(* drops by exactly the number of bytes returned.                          *)
C1_ResumeInFrame ==
  (lastRead.valid /\ peerOK /\ lastRead.startRem > 0)
    => /\ lastRead.hdr = 0
       /\ lastRead.n >= 1
       /\ All(lastRead.chunkTags, "P")
       /\ lastRead.endRem = lastRead.startRem - lastRead.n

(* C2: a Read that starts at the header of a whole DATA frame with payload *)
(* P, with len(p) >= len(P), returns exactly P in that one call.           *)
C2_RoundTrip ==
  (/\ lastRead.valid /\ lastRead.startTag = "H0"
   /\ lastRead.startFrame.whole /\ lastRead.startFrame.t = DataFrameType
   /\ lastRead.lenp >= Len(lastRead.startFrame.p))
    => /\ lastRead.chunk = lastRead.startFrame.p
       /\ lastRead.n = Len(lastRead.startFrame.p)

(* C2, amended: the same, provided the conduit made no short read in that  *)
(* call (it returned as many bytes as were asked for and had arrived).     *)
C2_RoundTripNoShortRead ==
  (/\ lastRead.valid /\ lastRead.startTag = "H0"
   /\ lastRead.startFrame.whole /\ lastRead.startFrame.t = DataFrameType
   /\ lastRead.lenp >= Len(lastRead.startFrame.p)
   /\ ~lastRead.short)
    => /\ lastRead.chunk = lastRead.startFrame.p
       /\ lastRead.n = Len(lastRead.startFrame.p)

C2_Witness ==
  /\ lastRead.valid /\ lastRead.startTag = "H0"
  /\ lastRead.startFrame.whole /\ lastRead.startFrame.t = DataFrameType
  /\ lastRead.lenp >= Len(lastRead.startFrame.p)
  /\ ~lastRead.short
  /\ Len(lastRead.startFrame.p) = MaxPayload
  /\ lastRead.chunk = lastRead.startFrame.p
  /\ rcv # << >>

(* C3: as long as every Write call succeeded, the bytes the conduit        *)
(* accepted are the whole DATA frames of the payloads written, in call     *)
(* order: varint type 0, varint length, then that many payload bytes.      *)
C3_WireIsFrames ==
  ~wrFailed => WireFrames(sent, 1, << >>) = okWrites

C3_Witness ==
  /\ ~wrFailed /\ Len(okWrites) = 2
  /\ Len(okWrites[1]) = MaxPayload /\ okWrites[2] # okWrites[1]
  /\ WireFrames(sent, 1, << >>) = okWrites

(* C4: a Read that starts at a complete frame header declaring a type      *)
(* other than DATA fails with the frame-type error, returns no payload     *)
(* byte and consumes the header only (nothing is skipped).                 *)
C4_TypeRejection ==
  (/\ lastRead.valid /\ lastRead.startTag = "H0"
   /\ lastRead.startFrame.t # DataFrameType
   /\ (lastRead.startFrame.whole \/ trunc = "payload"))
    => /\ lastRead.err = "FRAMETYPE"
       /\ lastRead.n = 0 /\ lastRead.chunk = << >>
       /\ lastRead.hdrTags = << "H0", "H" >> /\ lastRead.used = lastRead.hdr

(* C5: a Read that starts at the complete header of a DATA frame declaring *)
(* N > 0 bytes and meets end-of-data before N payload bytes were delivered *)
(* fails, and not with the end-of-stream result.                           *)
C5_TruncatedFrame ==
  (/\ lastRead.valid /\ lastRead.startTag = "H0"
   /\ lastRead.startFrame.t = DataFrameType /\ ~lastRead.startFrame.whole
   /\ trunc = "payload" /\ lastRead.sawEOF)
    => lastRead.err \notin {"nil", "EOF"}

(* C6: a Read at a frame boundary where the stream ended cleanly reports   *)
(* end-of-stream; a Read that meets end-of-data inside a frame header      *)
(* fails with an error that is not the end-of-stream result.               *)
C6_EndOfStream ==
  lastRead.valid =>
    /\ (lastRead.startTag = "END" /\ trunc = "none" /\ lastRead.err # "ERR")
         => lastRead.err = "EOF"
    /\ (lastRead.startTag = "H0" /\ ~lastRead.startFrame.whole /\ trunc = "header")
         => lastRead.err \notin {"nil", "EOF"}

(* C7: a Read that starts at the header of a whole DATA frame of length 0  *)
(* returns a zero-length chunk with no error (not end-of-stream) and       *)
(* consumes that header only, so the frame after it is neither skipped nor *)
(* merged.                                                                 *)
C7_ZeroLengthFrame ==
  (/\ lastRead.valid /\ lastRead.startTag = "H0"
   /\ lastRead.startFrame.whole /\ lastRead.startFrame.t = DataFrameType
   /\ lastRead.startFrame.l = 0)
    => /\ lastRead.n = 0 /\ lastRead.err = "nil"
       /\ lastRead.hdrTags = << "H0", "H" >>

(* C8: with a peer that sends whole DATA frames only, no Read returns a    *)
(* header byte as payload or bytes of more than one frame, and a Read that *)
(* starts at a frame header parses that header and nothing else.           *)
C8_NoCrossing ==
  (lastRead.valid /\ peerOK)
    => /\ All(lastRead.chunkTags, "P")
       /\ lastRead.startTag = "H0" => lastRead.hdrTags = << "H0", "H" >>

(* C9: however often Close is called, w.str.Close() is invoked once.       *)
C9_CloseOnce == strCloses <= 1

(* C10: after Close, every Read and every Write fails, reading no byte     *)
(* from the conduit and writing none to it.                                *)
C10_AfterClose ==
  /\ (lastRead.valid /\ lastRead.closed)
       => (lastRead.err \notin {"nil", "EOF"} /\ lastRead.used = 0)
  /\ (lastWrite.valid /\ lastWrite.closed)
       => (lastWrite.err # "nil" /\ lastWrite.acc = << >>)

(* C13: whatever a Write call did, failed or not, the conduit holds the    *)
(* header of its frame only together with the whole payload: once all the  *)
(* header bytes were accepted, the whole frame was.                        *)
C13_HeaderWithPayload ==
  lastWrite.valid =>
    (Len(lastWrite.acc) >= Len(dataFrame_Write(Len(lastWrite.p)))
       => lastWrite.acc = FrameBytes(DataFrameType, lastWrite.p))

(* C14: Write returns no error only if the conduit accepted the whole      *)
(* frame; when a conduit write fails, Write returns the conduit's error,   *)
(* and that write was the last one of the call: one conduit write if the   *)
(* header write failed (no payload byte follows), two if the payload write *)
(* failed, and what the conduit holds is what it accepted up to there.     *)
C14_WriteFailure ==
  lastWrite.valid =>
    /\ lastWrite.err = "nil"
         => /\ lastWrite.acc = FrameBytes(DataFrameType, lastWrite.p)
            /\ lastWrite.n = Len(lastWrite.p)
            /\ lastWrite.fail = "none"
    /\ lastWrite.fail # "none" => lastWrite.err = "ERR"
    /\ lastWrite.fail = "hdr"
         => /\ lastWrite.calls = 1 /\ lastWrite.n = 0
            /\ Len(lastWrite.acc) < Len(dataFrame_Write(Len(lastWrite.p)))
            /\ lastWrite.acc = SubSeq(FrameBytes(DataFrameType, lastWrite.p), 1,
                                      Len(lastWrite.acc))
    /\ lastWrite.fail = "pay"
         => /\ lastWrite.calls = 2
            /\ lastWrite.acc = SubSeq(FrameBytes(DataFrameType, lastWrite.p), 1,
                                      Len(lastWrite.acc))
            /\ lastWrite.n = Len(lastWrite.acc) - Len(dataFrame_Write(Len(lastWrite.p)))

C14_Witness ==
  /\ lastWrite.valid /\ lastWrite.fail = "hdr" /\ ~lastWrite.closed
  /\ Len(lastWrite.acc) = 1 /\ lastWrite.calls = 1 /\ lastWrite.err = "ERR"
  /\ Len(lastWrite.p) = MaxPayload /\ okWrites # << >>

(* ========================= the varint codec =========================== *)
(* The values the codec is tried on: those around each width boundary      *)
(* (0, 2^6, 2^14, 2^30).                                                   *)
WidthBoundaries == {0, 64, 16384, 1073741824}

CodecValues ==
  {b + d : b \in WidthBoundaries, d \in (0 - CodecSpread)..CodecSpread} \cap Nat

\* the bytes that may follow a varint on the wire
CodecTails == {<< >>, << 0 >>, << 255, 1 >>}

InitCodec ==
  /\ StreamInit /\ ReadByteIdle /\ ConcIdle /\ PingIdle
  /\ cv \in CodecValues /\ cenc = << >> /\ cdec = NoDecode

(* quicvarint.Write(b, cv) on an empty buffer b. *)
Encode ==
  /\ cenc = << >>
  /\ cenc' = VarintWrite(cv)
  /\ UNCHANGED << streamVars, rbVars, concVars, pingVars, cv, cdec >>

(* quicvarint.Read on a byte reader that holds cenc followed by tail. *)
Decode(tail) ==
  /\ cenc # << >> /\ ~cdec.valid
  /\ \E r \in {VarintRead(cenc \o tail, 0, FALSE, FALSE, FALSE)} :
       cdec' = [valid |-> TRUE, v |-> r.v, err |-> r.err, pos |-> r.pos, tail |-> tail]
  /\ UNCHANGED << streamVars, rbVars, concVars, pingVars, cv, cenc >>

NextCodec == Encode \/ \E tail \in CodecTails : Decode(tail)

SpecCodec == InitCodec /\ [][NextCodec]_vars

(* C11: decoding the encoding of a value gives the value back, with no     *)
(* error, and consumes exactly the bytes of the encoding, whatever follows *)
(* them.                                                                   *)
C11_VarintRoundTrip ==
  cdec.valid => /\ cdec.err = "nil"
                /\ cdec.v = cv
                /\ cdec.pos = Len(cenc)

C11_Witness ==
  /\ cdec.valid /\ cv = 1073741824 /\ cdec.v = cv
  /\ cdec.pos = 8 /\ cdec.tail # << >>

(* The widths and the value bits each of them holds: 8 * w - 2.  The widest *)
(* holds every value of the model.                                          *)
Fits(v, w) == w = 8 \/ v < 2 ^ (8 * w - 2)

MinWidth(v) ==
  CHOOSE w \in {1, 2, 4, 8} :
    Fits(v, w) /\ \A u \in {1, 2, 4, 8} : Fits(v, u) => w <= u

(* C12: the encoding of a value has the smallest of the widths 1, 2, 4, 8  *)
(* that holds it, and the top two bits of its first byte name that width;  *)
(* 63 takes 1 byte, 64 and 16383 take 2, 16384 takes 4.                    *)
C12_VarintMinimal ==
  cenc # << >> =>
    /\ Len(cenc) = MinWidth(cv)
    /\ 2 ^ (cenc[1] \div 64) = Len(cenc)
    /\ cv = 63 => Len(cenc) = 1
    /\ cv \in {64, 16383} => Len(cenc) = 2
    /\ cv = 16384 => Len(cenc) = 4

C12_Witness ==
  /\ cenc # << >> /\ cv = 16384 /\ Len(cenc) = 4 /\ cenc[1] \div 64 = 2

(* =================== one writer and one reader goroutine ============== *)
ConcPayloads == {p \in Payloads : Len(p) <= MaxConcPayload}

(* Which buffer each path works in: Write the bytes.Buffer it allocates    *)
(* (line 128), ReadByte the slice it allocates (line 107).                 *)
WriteScratch == "w"

(* A faulty wrapper that keeps one scratch buffer in the struct and uses   *)
(* it on both paths: C15 must tell it from the real one.                   *)
ReadScratch_Shared == "w"

ReadScratch == "r"

(* Write, lines 127-129: df, buf, df.Write(buf).  fail and kacc say which  *)
(* conduit write of this call will fail and after how many bytes.          *)
WrBegin(p, fail, kacc) ==
  /\ wr.pc = "idle" /\ nframes < MaxFrames
  /\ \/ fail = "none" /\ kacc = 0
     \/ fail = "hdr" /\ kacc < Len(dataFrame_Write(Len(p)))
     \/ fail = "pay" /\ (kacc < Len(p) \/ kacc = 0)
  /\ (strCloses > 0 \/ wrFailed) => (fail = "hdr" /\ kacc = 0)
  /\ scratch' = [scratch EXCEPT ![WriteScratch] = dataFrame_Write(Len(p))]
  /\ wr' = [pc |-> "hdr", p |-> p, fail |-> fail, kacc |-> kacc, start |-> Len(sent),
            dead |-> (strCloses > 0 \/ wrFailed), mixed |-> rd.pc # "idle"]
  /\ nframes' = nframes + 1
  /\ UNCHANGED << rcvVars, sndVars, strCloses, lastRead, lastWrite, codecVars, rbVars, pingVars,
                  wres, rd, rres >>

\* Write returns (n, err) after calls conduit writes, the conduit holding newsent
WrReturn(n, err, calls, newsent) ==
  /\ wres' = [valid |-> TRUE, p |-> wr.p, fail |-> wr.fail, kacc |-> wr.kacc,
              dead |-> wr.dead, acc |-> SubSeq(newsent, wr.start + 1, Len(newsent)),
              n |-> n, err |-> err, calls |-> calls,
              mixed |-> (wr.mixed \/ rd.pc # "idle")]
  /\ wr' = WrIdle
  /\ okWrites' = IF err = "nil" THEN Append(okWrites, wr.p) ELSE okWrites
  /\ wrFailed' = (wrFailed \/ err # "nil")

(* Write, lines 130-132: w.str.Write(buf.Bytes()). *)
WrHeader ==
  /\ wr.pc = "hdr"
  /\ \E buf \in {scratch[WriteScratch]} :
       IF wr.dead
         THEN sent' = sent /\ WrReturn(0, "ERR", 1, sent)
       ELSE IF wr.fail = "hdr"
         THEN /\ sent' = sent \o SubSeq(buf, 1, wr.kacc)
              /\ WrReturn(0, "ERR", 1, sent \o SubSeq(buf, 1, wr.kacc))
       ELSE /\ sent' = sent \o buf
            /\ wr' = [wr EXCEPT !.pc = "pay", !.mixed = @ \/ rd.pc # "idle"]
            /\ UNCHANGED << wres, okWrites, wrFailed >>
  /\ UNCHANGED << rcvVars, nframes, strCloses, lastRead, lastWrite, codecVars, rbVars, pingVars,
                  scratch, rd, rres >>

(* Write, line 133: return w.str.Write(p). *)
WrPayload ==
  /\ wr.pc = "pay"
  /\ IF wr.fail = "pay"
       THEN /\ sent' = sent \o SubSeq(wr.p, 1, wr.kacc)
            /\ WrReturn(wr.kacc, "ERR", 2, sent \o SubSeq(wr.p, 1, wr.kacc))
       ELSE /\ sent' = sent \o wr.p
            /\ WrReturn(Len(wr.p), "nil", 2, sent \o wr.p)
  /\ UNCHANGED << rcvVars, nframes, strCloses, lastRead, lastWrite, codecVars, rbVars, pingVars,
                  scratch, rd, rres >>

(* Read, lines 137-144: the locals and the byteReaderImpl around w.str.    *)
(* bundle and k say how the conduit will deliver during this call.         *)
RdBegin(lenp, bundle, k) ==
  /\ rd.pc = "idle"
  /\ k <= lenp
  /\ bundle => fin
  /\ rd' = [RdIdle EXCEPT !.pc = "rb", !.lenp = lenp, !.bundle = bundle, !.k = k,
                          !.mixed = wr.pc # "idle"]
  /\ UNCHANGED << streamVars, codecVars, rbVars, pingVars, scratch, wr, wres, rres >>

\* the reader takes n bytes off the receive direction
RdConsume(n) ==
  /\ rcv' = Drop(rcv, n)
  /\ rcvTag' = Drop(rcvTag, n)
  /\ rcvFrames' = Drop(rcvFrames, CountH0(SubSeq(rcvTag, 1, n)))

\* Read returns (n, err) having consumed in, hdr bytes of it as header
RdReturn(n, err, in, hdr, rest) ==
  /\ rres' = [valid |-> TRUE, lenp |-> rd.lenp, bundle |-> rd.bundle, k |-> rd.k,
              in |-> in, rest |-> rest, fin |-> fin, n |-> n, err |-> err,
              hdr |-> hdr, mixed |-> (rd.mixed \/ wr.pc # "idle")]
  /\ rd' = RdIdle

(* ReadByte, lines 107-108: b := make([]byte, 1); br.Reader.Read(b). *)
RbRead ==
  /\ rd.pc = "rb"
  /\ \E r \in {StrRead(rcv, 0, 1, fin, rst, rd.bundle, 1)} :
       /\ r.err # "BLOCK"
       /\ scratch' = [scratch EXCEPT ![ReadScratch] =
                        IF r.n = 1 THEN << rcv[1] >> ELSE << 0 >>]
       /\ RdConsume(r.n)
       /\ rd' = [rd EXCEPT !.pc = "take", !.in = @ \o SubSeq(rcv, 1, r.n),
                           !.gotn = r.n, !.goterr = r.err,
                           !.mixed = @ \/ wr.pc # "idle"]
  /\ UNCHANGED << fin, rst, trunc, peerOK, sndVars, nframes, strCloses, lastRead,
                  lastWrite, codecVars, rbVars, pingVars, wr, wres, rres >>

(* ReadByte, lines 108-111, and what quicvarint.Read and Read (lines       *)
(* 145-157) do with the byte: an error ends the call; the first byte of a  *)
(* varint gives its width; the last byte of the type varint starts the     *)
(* length varint; the last byte of the length varint leads to the type     *)
(* test.                                                                   *)
RbTake ==
  /\ rd.pc = "take"
  /\ \E x \in {byteReaderImpl_ReadByte(rd.gotn, rd.goterr, scratch[ReadScratch][1])} :
       IF x.err # "nil"
         THEN RdReturn(0, x.err, rd.in, Len(rd.in), rcv)
       ELSE
       LET acc  == IF rd.first THEN x.b % 64 ELSE rd.acc * 256 + x.b
           left == IF rd.first THEN 2 ^ (x.b \div 64) - 1 ELSE rd.left - 1
           mix  == rd.mixed \/ wr.pc # "idle"
       IN  IF left > 0
             THEN /\ rd' = [rd EXCEPT !.pc = "rb", !.first = FALSE, !.left = left,
                                      !.acc = acc, !.mixed = mix]
                  /\ UNCHANGED rres
           ELSE IF rd.which = "t"
             THEN /\ rd' = [rd EXCEPT !.pc = "rb", !.which = "l", !.first = TRUE,
                                      !.left = 0, !.acc = 0, !.t = acc, !.mixed = mix]
                  /\ UNCHANGED rres
           ELSE IF rd.t # DataFrameType
             THEN RdReturn(0, "FRAMETYPE", rd.in, Len(rd.in), rcv)
           ELSE /\ rd' = [rd EXCEPT !.pc = "pay", !.left = 0, !.acc = 0, !.l = acc,
                                    !.mixed = mix]
                /\ UNCHANGED rres
  /\ UNCHANGED << streamVars, codecVars, rbVars, pingVars, scratch, wr, wres >>

(* Read, lines 159-167: one conduit Read of min(l, len(p)) bytes. *)
RdPayload ==
  /\ rd.pc = "pay"
  /\ \E r \in {StrRead(rcv, 0, ReadLen(rd.l, rd.lenp), fin, rst, rd.bundle, rd.k)} :
       /\ r.err # "BLOCK"
       /\ RdConsume(r.n)
       /\ RdReturn(r.n, r.err, rd.in \o SubSeq(rcv, 1, r.n), Len(rd.in), Drop(rcv, r.n))
  /\ UNCHANGED << fin, rst, trunc, peerOK, sndVars, nframes, strCloses, lastRead,
                  lastWrite, codecVars, rbVars, pingVars, scratch, wr, wres >>

(* The peer sends whole frames or ends the stream, at any moment at which  *)
(* the reader has taken nothing yet in its current call.                   *)
ConcPeer ==
  /\ rd.in = << >>
  /\ \/ \E t \in FrameTypes, p \in ConcPayloads : PeerWrite(t, p)
     \/ PeerClose

WriterStep ==
  \/ \E p \in ConcPayloads, fail \in {"none", "hdr", "pay"}, kacc \in 0..MaxConcPayload :
       WrBegin(p, fail, kacc)
  \/ WrHeader
  \/ WrPayload

ReaderStep ==
  \/ \E lenp \in 1..(MaxConcPayload + 1), bundle \in BOOLEAN, k \in 1..(MaxConcPayload + 1) :
       RdBegin(lenp, bundle, k)
  \/ RbRead
  \/ RbTake
  \/ RdPayload

NextConc == ConcPeer \/ WriterStep \/ ReaderStep

SpecConc == Init /\ [][NextConc]_vars

(* What each goroutine's call did is what the call does when it runs with  *)
(* nothing else going on: Write put on the conduit and returned what       *)
(* RWStreamImp_Write gives, Read consumed and returned what                *)
(* RWStreamImp_Read gives on the same bytes; and while every Write         *)
(* succeeded the conduit holds the whole frames of the payloads written.   *)
SameAsAlone ==
  /\ wres.valid =>
       \E a \in {RWStreamImp_Write(wres.p, wres.dead, wres.fail, wres.kacc)} :
         /\ wres.acc = a.acc /\ wres.n = a.n /\ wres.err = a.err
         /\ wres.calls = a.calls
  /\ rres.valid =>
       \E a \in {RWStreamImp_Read(rres.in \o rres.rest, rres.fin, FALSE, rres.lenp,
                                  rres.bundle, rres.k)} :
         /\ rres.n = a.n /\ rres.err = a.err
         /\ Len(rres.in) = a.used /\ rres.hdr = a.hdr
  /\ (wr.pc = "idle" /\ ~wrFailed) => WireFrames(sent, 1, << >>) = okWrites

(* C15: with one goroutine in Read and one in Write, in any interleaving,  *)
(* no step of the write path changes anything the read path uses, no step  *)
(* of the read path changes anything the write path uses, and every call   *)
(* of either does what it does when run alone.                             *)
C15_NoInterference ==
  /\ []SameAsAlone
  /\ [][wr' # wr => UNCHANGED << rcv, rd, rres, scratch[ReadScratch] >>]_vars
  /\ [][rd' # rd => UNCHANGED << sent, wr, wres, scratch[WriteScratch] >>]_vars

C15_Witness ==
  /\ wres.valid /\ wres.mixed /\ wres.err = "nil" /\ Len(wres.p) = MaxConcPayload
  /\ rres.valid /\ rres.mixed /\ rres.err = "nil" /\ rres.n = MaxConcPayload

(* ======================= byteReaderImpl.ReadByte ====================== *)
(* The byte values an io.Reader delivers here; 0 is one of them. *)
SrcBytes == {0, 1, 200}

InitReadByte ==
  /\ StreamInit /\ CodecIdle /\ ConcIdle /\ PingIdle
  /\ rbSrc \in UNION { [1..n -> SrcBytes] : n \in 0..MaxSrc }
  /\ rbLast = NoReadByte

(* One br.ReadByte() call.  The embedded reader's Read(b), len(b) = 1,     *)
(* returns (n, err) as io.Reader allows: n = 1 with the next byte when     *)
(* there is one, possibly together with io.EOF when it was the last or     *)
(* with another error; n = 0 with io.EOF at the end, with another error,   *)
(* or with no error at all (nothing happened).                             *)
ReadByteCall(n, err) ==
  /\ n = 1 => rbSrc # << >>
  /\ err = "EOF" => Len(rbSrc) = n
  /\ \E d \in {IF n = 1 THEN Head(rbSrc) ELSE 0} :
     \E x \in {byteReaderImpl_ReadByte(n, err, d)} :
       /\ rbLast' = [valid |-> TRUE, un |-> n, uerr |-> err, ub |-> d,
                     b |-> x.b, err |-> x.err]
       /\ rbSrc' = IF n = 1 THEN Tail(rbSrc) ELSE rbSrc
  /\ UNCHANGED << streamVars, codecVars, concVars, pingVars >>

NextReadByte == \E n \in {0, 1}, err \in {"nil", "EOF", "ERR"} : ReadByteCall(n, err)

SpecReadByte == InitReadByte /\ [][NextReadByte]_vars

(* C16: ReadByte returns a byte with no error only when the embedded       *)
(* reader delivered one byte, and then it is that byte; and whenever the   *)
(* embedded reader delivered a byte, with or without an error, ReadByte    *)
(* returns that byte with no error, so that it is not lost.                *)
C16_ReadByteFaithful ==
  rbLast.valid =>
    /\ rbLast.err = "nil" => (rbLast.un = 1 /\ rbLast.b = rbLast.ub)
    /\ rbLast.un = 1 => (rbLast.err = "nil" /\ rbLast.b = rbLast.ub)

(* ======================= the keep-alive exchange ====================== *)
\* for i := 0; i < 10; i++ (line 220)
NumPings == 10

\* buf := make([]byte, 100) (line 219)
BufLen == 100

\* []byte("PING") (line 221) and the "PONG" of line 60
PING == << 80, 73, 78, 71 >>

PONG == << 80, 79, 78, 71 >>

(* A faulty handler that logs a Read error and carries on: C17 must tell   *)
(* it from the real one.                                                   *)
AfterRead_ErrorIgnored(err) == "sleep"

(* Lines 222-225 and 230-233: an error ends the handler. *)
AfterWrite(err) == IF err # "nil" THEN "exit" ELSE "read"

AfterRead(err) == IF err # "nil" THEN "exit" ELSE "sleep"

(* Line 221: RWStr.Write([]byte("PING")).  A whole frame on the conduit    *)
(* becomes four payload bytes for the client to read; after a failed       *)
(* write the stream is broken and the client's reads fail.                 *)
SrvWrite(fail, kacc) ==
  /\ srv.pc = "write"
  /\ \/ fail = "none" /\ kacc = 0
     \/ fail = "hdr" /\ kacc < Len(dataFrame_Write(Len(PING)))
     \/ fail = "pay" /\ kacc < Len(PING)
  /\ \E r \in {RWStreamImp_Write(PING, FALSE, fail, kacc)} :
       /\ down' = IF r.err = "nil"
                    THEN [down EXCEPT !.frames = Append(@, Len(PING))]
                    ELSE [down EXCEPT !.err = TRUE]
       /\ srv' = [srv EXCEPT !.pc = AfterWrite(r.err)]
       /\ tally' = [tally EXCEPT !.writes = @ + 1,
                                 !.pings = IF r.err = "nil" THEN @ + 1 ELSE @,
                                 !.faulty = @ \/ r.err # "nil",
                                 !.ops = Append(@, [op |-> "W", ok |-> r.err = "nil"])]
  /\ UNCHANGED << streamVars, codecVars, rbVars, concVars, cli, up >>

(* Line 229: RWStr.Read(buf).  k bytes of the request body had arrived     *)
(* when the conduit Read for the payload returned.                         *)
SrvRead(k) ==
  /\ srv.pc = "read"
  /\ \E r \in {RWStreamImp_Read(up, FALSE, FALSE, BufLen, FALSE, k)} :
       /\ r.err # "BLOCK"
       /\ up' = Drop(up, r.used)
       /\ srv' = [srv EXCEPT !.pc = AfterRead(r.err)]
       /\ tally' = [tally EXCEPT !.reads = @ + 1,
                                 !.rounds = IF r.err = "nil" THEN @ + 1 ELSE @,
                                 !.short = @ \/ r.n < Min(r.want, Len(up) - r.hdr),
                                 !.ops = Append(@, [op |-> "R", ok |-> r.err = "nil"])]
  /\ UNCHANGED << streamVars, codecVars, rbVars, concVars, cli, down >>

(* Lines 235 and 220: the sleep, i++ and the loop test. *)
SrvSleep ==
  /\ srv.pc = "sleep"
  /\ srv' = [srv EXCEPT !.i = @ + 1,
                        !.pc = IF srv.i + 1 < NumPings THEN "write" ELSE "exit"]
  /\ UNCHANGED << streamVars, codecVars, rbVars, concVars, cli, up, down, tally >>

(* Line 217: the deferred RWStr.Close() runs when the handler returns; the *)
(* client sees the end of the response body.                               *)
SrvExit ==
  /\ srv.pc = "exit"
  /\ srv' = [srv EXCEPT !.pc = "done", !.closes = RWStreamImp_Close(@)]
  /\ down' = [down EXCEPT !.fin = TRUE]
  /\ UNCHANGED << streamVars, codecVars, rbVars, concVars, cli, up, tally >>

(* Line 48: str.Read(buf) on the response body returns: j bytes of the     *)
(* payload of the frame being read (a conduit may deliver a payload in     *)
(* pieces), or an error on a broken stream (log.Fatalf), or io.EOF once    *)
(* the server ended the stream and nothing is left (break).                *)
CliRead(j) ==
  /\ cli = "read"
  /\ IF down.err
       THEN cli' = "fatal" /\ UNCHANGED << down, tally >>
     ELSE IF down.frames # << >>
       THEN /\ j <= Head(down.frames)
            /\ down' = [down EXCEPT !.frames =
                          IF j = Head(@) THEN Tail(@) ELSE << Head(@) - j >> \o Tail(@)]
            /\ tally' = [tally EXCEPT !.split = @ \/ j < Len(PING)]
            /\ cli' = "pong"
     ELSE /\ down.fin /\ j = 1
          /\ cli' = "done" /\ UNCHANGED << down, tally >>
  /\ UNCHANGED << streamVars, codecVars, rbVars, concVars, srv, up >>

(* Line 60: fmt.Fprintf(pw, "PONG").  The HTTP/3 client reads the four     *)
(* bytes from the pipe and sends them as one DATA frame of the request     *)
(* body.                                                                   *)
CliPong ==
  /\ cli = "pong"
  /\ up' = up \o FrameBytes(DataFrameType, PONG)
  /\ tally' = [tally EXCEPT !.pongs = @ + 1]
  /\ cli' = "read"
  /\ UNCHANGED << streamVars, codecVars, rbVars, concVars, srv, down >>

ServerStep ==
  \/ \E fail \in {"none", "hdr", "pay"}, kacc \in 0..Len(PING) : SrvWrite(fail, kacc)
  \/ \E k \in 1..Len(PONG) : SrvRead(k)
  \/ SrvSleep
  \/ SrvExit

ClientStep ==
  \/ \E j \in 1..Len(PING) : CliRead(j)
  \/ CliPong

NextPing == ServerStep \/ ClientStep

SpecPing == Init /\ [][NextPing]_vars

(* C17: the handler's operations are Write, Read, Write, Read, ... with   *)
(* at most NumPings Writes; an operation that failed is the last one (so   *)
(* PING i+1 is sent only after the Read that followed PING i succeeded);   *)
(* after a failure the handler is on its way out; and whenever the handler *)
(* has returned, Close was called, once.                                   *)
C17_PingReadAlternate ==
  /\ tally.writes <= NumPings
  /\ \A x \in 1..Len(tally.ops) :
       /\ tally.ops[x].op = (IF x % 2 = 1 THEN "W" ELSE "R")
       /\ x < Len(tally.ops) => tally.ops[x].ok
  /\ (tally.ops # << >> /\ ~tally.ops[Len(tally.ops)].ok) => srv.pc \in {"exit", "done"}
  /\ srv.closes = (IF srv.pc = "done" THEN 1 ELSE 0)

C17_Witness ==
  /\ srv.pc = "done" /\ srv.closes = 1
  /\ Len(tally.ops) = 4
  /\ tally.ops[4].op = "R" /\ ~tally.ops[4].ok

(* C18, the part that a finite run can refute: when no conduit operation   *)
(* failed, the handler returns only after all NumPings rounds: each Write  *)
(* of a PING followed by a Read that returned without error.               *)
C18_AllRoundsComplete ==
  (srv.pc = "done" /\ ~tally.faulty) => tally.rounds = NumPings

(* C19: the client has never written more PONGs than the server has       *)
(* written PINGs.                                                          *)
C19_OnePongPerPing == tally.pongs <= tally.pings

====
